---- MODULE Spec2Model ----
(***************************************************************************)
(* State-machine model of app/audio.py (AudioManager): the stream          *)
(* lifecycle (start_stream / stop_stream), the buffer callback             *)
(* (_process_audio, _apply_eq) and the parameter setters (set_gain,        *)
(* set_volume_sensitivity, set_eq_gains), and of the device catalog        *)
(* (get_input_devices, get_output_devices, _normalize_device_name).        *)
(*                                                                         *)
(* The Qt objects the manager creates (QAudioSource, QAudioSink) are kept  *)
(* in two tables of slots; a field such as _audio_source holds a slot      *)
(* number, 0 standing for Python's None.  A slot is reused once its object *)
(* is stopped and nothing refers to it any more.                           *)
(*                                                                         *)
(* The controlling context runs each method to completion (one action per  *)
(* call).  The buffer callback runs in the delivery context and is split   *)
(* in two steps (read + meter, then gain + equalizer + write), so that     *)
(* calls of the controlling context can fall between them.                 *)
(*                                                                         *)
(* Arithmetic of the gain curve is exact (rationals scaled by GainScale);  *)
(* floating-point rounding is not modelled.                                *)
(***************************************************************************)
EXTENDS Integers, Sequences, FiniteSets, TLC

\* ------------------------------------------------------------------ bounds
\* slots per table of Qt objects (sources, sinks)
MaxConn == 3
\* longest device name, in bytes or characters
MaxNameLen == 2

\* ------------------------------------------------------- program constants
None == "None"

\* QAudio.State values used by the code
StoppedState == "StoppedState"
ActiveState == "ActiveState"
IdleState == "IdleState"

\* audio.py:49
EqFrequencies == <<31, 63, 125, 250, 500, 1000, 2000, 4000, 8000, 16000>>

\* the gain is kept as gain * GainScale (1000 for the 0.3/0.7/3.0 constants
\* times 50*50 for normalized = percent / 50.0)
GainScale == 2500000

\* ------------------------------------------------------------- environment
\* The devices the platform knows and what they accept.
InputDevs == {"mic", "line", "usb"}
OutputDevs == {"spk", "hp"}

\* QMediaDevices.audioInputs()
AudioInputs == <<"mic", "line", "usb">>
\* QMediaDevices.audioOutputs() and QMediaDevices.defaultAudioOutput()
AudioOutputs == <<"spk", "hp">>
DefaultAudioOutput == "spk"

\* QAudioDevice.preferredFormat()
PreferredFormat(dev) ==
    CASE dev = "mic" -> [rate |-> 44100, ch |-> 2]
      [] dev = "line" -> [rate |-> 48000, ch |-> 6]
      [] OTHER -> [rate |-> 48000, ch |-> 1]

\* QAudioDevice.isFormatSupported(format)
IsFormatSupported(dev, fmt) ==
    IF dev = "mic"
    THEN fmt.rate \in {44100, 48000} /\ fmt.ch \in {1, 2}
    ELSE fmt = PreferredFormat(dev)

\* arguments the callers pass
DeviceIds == -1 .. 3
\* Optional[int]: <<>> is None, <<n>> is the integer n
OutputIds == { <<>>, <<1>>, <<2>> }

\* where a start_stream call can fail:
\*   enumerate      QMediaDevices.audioInputs()/audioOutputs() raises
\*   negotiate      isFormatSupported()/preferredFormat() raises
\*   create_source  QAudioSource(...) raises
\*   create_sink    QAudioSink(...) raises
\*   sink_start     QAudioSink.start() raises
\*   sink_open      the output device fails to open: QAudioSink.start() returns
\*                  None and the sink stays in StoppedState (no exception); the
\*                  None is what line 123 stores and line 215 tests for
\*   source_start   QAudioSource.start() raises, or the input device fails to
\*                  open: start() returns None and io_device_in.readyRead
\*                  (connecting the callback) raises AttributeError
FailPoints == { "none", "enumerate", "negotiate", "create_source", "create_sink",
                "sink_start", "sink_open", "source_start" }

\* numbers of int16 samples a delivered buffer holds (0: nothing to read), and
\* the lengths _apply_eq can then be called with
BufLens == {0, 2}
CacheKeys == {1, 2}

\* ------------------------------------------------------------------- state
VARIABLES
    audio_source,        \* self._audio_source: slot of sources, 0 = None
    audio_sink,          \* self._audio_sink: slot of sinks, 0 = None
    input_device,        \* self._input_device
    output_device,       \* self._output_device
    io_device_out,       \* self._io_device_out: slot of the sink it writes to, 0 = None
    gain,                \* self._gain * GainScale
    volume_sensitivity,  \* self._volume_sensitivity * 100
    sample_rate,         \* self._sample_rate
    format,              \* self._format
    channels,            \* self._channels
    eq_frequencies,      \* self._eq_frequencies
    eq_gains,            \* self._eq_gains
    fft_freqs_cache,     \* self._fft_freqs_cache: key -> rate the bins were computed with, 0 = no entry
    sources,             \* the QAudioSource objects
    sinks,               \* the QAudioSink objects
    audio_inputs,        \* what QMediaDevices.audioInputs() returns now
    cb_pc,               \* position of the running _process_audio invocation
    cb_io,               \* its io_device_in (slot of sources), 0 when none runs
    cb_len,              \* number of samples it read
    gain_percent,        \* the percent last passed to set_gain, -1 before the first call
    last,                \* the last call or callback step: what ran, what it returned, the line it
                         \* returned at (or stands at), and what a callback emitted and wrote
    catalog              \* the last call of the device catalog: what ran, with what, what it returned

vars == << audio_source, audio_sink, input_device, output_device, io_device_out,
           gain, volume_sensitivity, sample_rate, format, channels,
           eq_frequencies, eq_gains, fft_freqs_cache, sources, sinks,
           audio_inputs, cb_pc, cb_io, cb_len, gain_percent, last, catalog >>

sessionVars == << audio_source, audio_sink, input_device, output_device, io_device_out,
                  sample_rate, format, channels, fft_freqs_cache, sources, sinks >>
paramVars == << gain, volume_sensitivity, gain_percent, eq_gains >>
cbVars == << cb_pc, cb_io, cb_len >>
\* all the fields of the AudioManager; the device catalog reads none of them
managerVars == << sessionVars, paramVars, cbVars, eq_frequencies, last >>

Slots == 1 .. MaxConn

FreeSource == [used |-> FALSE, dev |-> None, fmt |-> [rate |-> 0, ch |-> 0],
               state |-> StoppedState, cb |-> FALSE]
FreeSink == [used |-> FALSE, dev |-> None, fmt |-> [rate |-> 0, ch |-> 0],
             state |-> StoppedState]

\* the fields start_stream and stop_stream work on, as one value
Self ==
    [ audio_source |-> audio_source, audio_sink |-> audio_sink,
      input_device |-> input_device, output_device |-> output_device,
      io_device_out |-> io_device_out, sample_rate |-> sample_rate,
      format |-> format, channels |-> channels,
      fft_freqs_cache |-> fft_freqs_cache, sources |-> sources, sinks |-> sinks ]

Init ==
    /\ audio_source = 0
    /\ audio_sink = 0
    /\ input_device = None
    /\ output_device = None
    /\ io_device_out = 0
    /\ gain = GainScale
    /\ volume_sensitivity = 50
    /\ sample_rate = 44100
    /\ format = [rate |-> 0, ch |-> 0]
    /\ channels = 2
    /\ eq_frequencies = EqFrequencies
    /\ eq_gains = [i \in 1 .. Len(EqFrequencies) |-> 0]
    /\ fft_freqs_cache = [k \in CacheKeys |-> 0]
    /\ sources = [k \in Slots |-> FreeSource]
    /\ sinks = [k \in Slots |-> FreeSink]
    /\ audio_inputs = AudioInputs
    /\ cb_pc = "idle"
    /\ cb_io = 0
    /\ cb_len = 0
    /\ gain_percent = -1
    /\ last = [op |-> "__init__", ret |-> None, line |-> 51, emitted |-> 0, written |-> 0]
    /\ catalog = [op |-> "__init__", pref |-> "utf-8",
                  raw |-> [kind |-> "str", data |-> << >>],
                  name |-> << >>, devices |-> << >>, error |-> FALSE]

\* ------------------------------------------------------------ stop_stream
\* stop_stream with the stop() calls forgotten: the references are dropped and
\* the objects left running
stop_stream_drops_references(s) ==
    [s EXCEPT !.audio_source = 0, !.audio_sink = 0, !.io_device_out = 0]

\* stop_stream that stops the source and forgets the sink
stop_stream_source_only(s) ==
    IF s.audio_source # 0
    THEN [s EXCEPT !.sources[s.audio_source].state = StoppedState,
                   !.audio_source = 0]
    ELSE s

\* audio.py:135-148.  QAudioSource.stop() / QAudioSink.stop() put the object in
\* StoppedState; the references are then dropped.
stop_stream(s) ==
    LET a == IF s.audio_source # 0
             THEN [s EXCEPT !.sources[s.audio_source].state = StoppedState,
                            !.audio_source = 0]
             ELSE s
        b == IF a.audio_sink # 0
             THEN [a EXCEPT !.sinks[a.audio_sink].state = StoppedState,
                            !.audio_sink = 0]
             ELSE a
    IN  [b EXCEPT !.io_device_out = 0]

\* ----------------------------------------------------------- start_stream
\* lowest slot holding no object
FreeSlot(table) == CHOOSE k \in Slots : ~table[k].used /\ \A j \in 1 .. k - 1 : table[j].used
HasFreeSlot(table) == { k \in Slots : ~table[k].used } # {}

Min(a, b) == IF a <= b THEN a ELSE b

\* audio.py:86-93
ResolveOutput(output_id) ==
    IF output_id = <<>>
    THEN DefaultAudioOutput
    ELSE IF output_id[1] < 0 \/ output_id[1] >= Len(AudioOutputs)
         THEN DefaultAudioOutput
         ELSE AudioOutputs[output_id[1] + 1]

\* the guard with the state test inverted (== StoppedState)
SameStreamRunning_inverted(s, new_input_device, new_output_device) ==
    /\ s.input_device = new_input_device
    /\ s.output_device = new_output_device
    /\ s.audio_source # 0
    /\ s.sources[s.audio_source].state = StoppedState

\* audio.py:95-98, the re-selection guard
SameStreamRunning(s, new_input_device, new_output_device) ==
    /\ s.input_device = new_input_device
    /\ s.output_device = new_output_device
    /\ s.audio_source # 0
    /\ s.sources[s.audio_source].state # StoppedState

\* the negotiation with the cache left alone when the preferred format is taken
Negotiate_keeps_cache(s) ==
    LET requested == [rate |-> s.sample_rate, ch |-> s.channels]
    IN  IF ~IsFormatSupported(s.input_device, requested)
        THEN LET pf == PreferredFormat(s.input_device)
             IN  [s EXCEPT !.sample_rate = pf.rate,
                           !.format = pf,
                           !.channels = Min(pf.ch, 2)]
        ELSE [s EXCEPT !.format = requested,
                       !.channels = Min(requested.ch, 2)]

\* audio.py:106-118: the format the connections are opened with
Negotiate(s) ==
    LET requested == [rate |-> s.sample_rate, ch |-> s.channels]
    IN  IF ~IsFormatSupported(s.input_device, requested)
        THEN LET pf == PreferredFormat(s.input_device)
             IN  [s EXCEPT !.sample_rate = pf.rate,
                           !.fft_freqs_cache = [k \in CacheKeys |-> 0],
                           !.format = pf,
                           !.channels = Min(pf.ch, 2)]
        ELSE [s EXCEPT !.format = requested,
                       !.channels = Min(requested.ch, 2)]

\* audio.py:120-129: create and start the two connections, register the callback
OpenConnections(s, fail) ==
    IF fail = "create_source" THEN [self |-> s, ret |-> "False", line |-> 133] ELSE
    LET src == FreeSlot(s.sources)
        s5 == [s EXCEPT !.sources[src] = [used |-> TRUE, dev |-> s.input_device,
                                           fmt |-> s.format, state |-> StoppedState,
                                           cb |-> FALSE],
                        !.audio_source = src]
    IN
    IF fail = "create_sink" THEN [self |-> s5, ret |-> "False", line |-> 133] ELSE
    LET snk == FreeSlot(s5.sinks)
        s6 == [s5 EXCEPT !.sinks[snk] = [used |-> TRUE, dev |-> s.output_device,
                                          fmt |-> s.format, state |-> StoppedState],
                         !.audio_sink = snk]
    IN
    IF fail = "sink_start" THEN [self |-> s6, ret |-> "False", line |-> 133] ELSE
    LET s7 == IF fail = "sink_open"
              THEN [s6 EXCEPT !.io_device_out = 0]
              ELSE [s6 EXCEPT !.sinks[snk].state = IdleState, !.io_device_out = snk]
    IN
    IF fail = "source_start" THEN [self |-> s7, ret |-> "False", line |-> 133] ELSE
    [self |-> [s7 EXCEPT !.sources[src].state = ActiveState, !.sources[src].cb = TRUE],
     ret |-> "True", line |-> 129]

\* start_stream with self._format assigned where the requested format is built,
\* ahead of the re-selection guard
start_stream_format_first(s, inputs, device_id, output_id, fail) ==
    IF fail = "enumerate" THEN [self |-> s, ret |-> "False", line |-> 133] ELSE
    IF device_id < 0 \/ device_id >= Len(inputs) THEN [self |-> s, ret |-> "False", line |-> 82] ELSE
    LET new_input_device == inputs[device_id + 1]
        new_output_device == ResolveOutput(output_id)
        s1 == [s EXCEPT !.format = [rate |-> s.sample_rate, ch |-> s.channels]]
    IN
    IF SameStreamRunning(s1, new_input_device, new_output_device)
    THEN [self |-> s1, ret |-> "True", line |-> 99] ELSE
    LET s2 == [stop_stream(s1) EXCEPT !.input_device = new_input_device,
                                      !.output_device = new_output_device]
    IN
    IF fail = "negotiate" THEN [self |-> s2, ret |-> "False", line |-> 133] ELSE
    OpenConnections(Negotiate(s2), fail)

\* start_stream with the teardown ahead of the range check
start_stream_stop_first(s, inputs, device_id, output_id, fail) ==
    IF fail = "enumerate" THEN [self |-> s, ret |-> "False", line |-> 133] ELSE
    LET s1 == stop_stream(s) IN
    IF device_id < 0 \/ device_id >= Len(inputs) THEN [self |-> s1, ret |-> "False", line |-> 82] ELSE
    LET new_input_device == inputs[device_id + 1]
        new_output_device == ResolveOutput(output_id)
        s2 == [s1 EXCEPT !.input_device = new_input_device,
                         !.output_device = new_output_device]
    IN
    IF fail = "negotiate" THEN [self |-> s2, ret |-> "False", line |-> 133] ELSE
    OpenConnections(Negotiate(s2), fail)

\* audio.py:78-133; the result names the value returned and the line of the
\* return statement (133: the exception handler)
start_stream(s, inputs, device_id, output_id, fail) ==
    IF fail = "enumerate" THEN [self |-> s, ret |-> "False", line |-> 133] ELSE
    IF device_id < 0 \/ device_id >= Len(inputs) THEN [self |-> s, ret |-> "False", line |-> 82] ELSE
    LET new_input_device == inputs[device_id + 1]
        new_output_device == ResolveOutput(output_id)
    IN
    IF SameStreamRunning(s, new_input_device, new_output_device)
    THEN [self |-> s, ret |-> "True", line |-> 99] ELSE
    LET s2 == [stop_stream(s) EXCEPT !.input_device = new_input_device,
                                     !.output_device = new_output_device]
    IN
    IF fail = "negotiate" THEN [self |-> s2, ret |-> "False", line |-> 133] ELSE
    OpenConnections(Negotiate(s2), fail)

\* Objects that are stopped and that nothing refers to are forgotten
\* (their slot becomes free).  keep is the io_device_in of a running callback.
Collect(s, keep) ==
    [s EXCEPT
       !.sources = [k \in Slots |->
                      IF s.sources[k].state = StoppedState /\ k # s.audio_source /\ k # keep
                      THEN FreeSource ELSE s.sources[k]],
       !.sinks = [k \in Slots |->
                    IF s.sinks[k].state = StoppedState /\ k # s.audio_sink
                    THEN FreeSink ELSE s.sinks[k]]]

\* (the value is bound once, by \E over a singleton, before it is taken apart)
Install(result) ==
    \E s \in {result} :
    /\ audio_source' = s.audio_source
    /\ audio_sink' = s.audio_sink
    /\ input_device' = s.input_device
    /\ output_device' = s.output_device
    /\ io_device_out' = s.io_device_out
    /\ sample_rate' = s.sample_rate
    /\ format' = s.format
    /\ channels' = s.channels
    /\ fft_freqs_cache' = s.fft_freqs_cache
    /\ sources' = s.sources
    /\ sinks' = s.sinks

\* audio.py:241-242
is_active(s) ==
    s.audio_source # 0 /\ s.sources[s.audio_source].state = ActiveState

\* ---------------------------------------------------------------- actions
StartStream(device_id, output_id, fail) ==
    /\ HasFreeSlot(sources) /\ HasFreeSlot(sinks)
    /\ \E r \in {start_stream(Self, audio_inputs, device_id, output_id, fail)} :
           /\ Install(Collect(r.self, cb_io))
           /\ last' = [op |-> "start_stream", ret |-> r.ret, line |-> r.line,
                       emitted |-> 0, written |-> 0]
    /\ UNCHANGED << paramVars, cbVars, eq_frequencies, audio_inputs, catalog >>

StopStream ==
    /\ Install(Collect(stop_stream(Self), cb_io))
    /\ last' = [op |-> "stop_stream", ret |-> None, line |-> 148,
                emitted |-> 0, written |-> 0]
    /\ UNCHANGED << paramVars, cbVars, eq_frequencies, audio_inputs, catalog >>

\* -------------------------------------------------------- buffer callback
\* audio.py:151, the fast path of _apply_eq
AllGainsZero(gains) == \A i \in DOMAIN gains : gains[i] = 0

\* audio.py:155-160: the bins of a buffer of data_len samples are computed with
\* the sample rate of that moment and kept under data_len
apply_eq_cache(cache, gains, data_len, rate) ==
    IF AllGainsZero(gains) THEN cache
    ELSE IF cache[data_len] = 0 THEN [cache EXCEPT ![data_len] = rate]
    ELSE cache

\* audio.py:204-210: the length _apply_eq is called with (one channel of a
\* stereo buffer, or the whole mono buffer)
EqDataLen(n, ch) == IF ch = 2 THEN n \div 2 ELSE n

\* a handler that tears the stream down on an exception
on_callback_error_stops(s) == stop_stream(s)

\* audio.py:218-219: what the handler of an exception in the callback does to
\* the session (it prints and returns)
on_callback_error(s) == s

\* a callback that emits the level ahead of the test for an empty buffer
Callback_emits_first(line, emitted, written) ==
    [op |-> "_process_audio", ret |-> None, line |-> line,
     emitted |-> IF line = 219 THEN emitted ELSE 1, written |-> written]

\* a step of _process_audio, as recorded in last: the line it returned at or
\* stands at (185: nothing to read, 200: level emitted, 216: written, 219: the
\* exception handler), how many levels it emitted and buffers it wrote
Callback(line, emitted, written) ==
    [op |-> "_process_audio", ret |-> None, line |-> line,
     emitted |-> emitted, written |-> written]

\* audio.py:183-200: readyRead fires for io_device_in (the device of source k),
\* the callback reads n samples, meters them and emits the level.  err:
\* io_device_in.readAll() raises, nothing is read.  (A buffer of whole frames of
\* a device of 1, 2 or 6 channels is converted and metered without exception.)
ProcessAudioRead(k, n, err) ==
    /\ cb_pc = "idle"
    /\ sources[k].used /\ sources[k].cb /\ sources[k].state # StoppedState
    /\ IF err
       THEN /\ Install(Collect(on_callback_error(Self), 0))
            /\ last' = Callback(219, 0, 0)
            /\ UNCHANGED << cb_pc, cb_io, cb_len >>
       ELSE IF n = 0
       THEN /\ last' = Callback(185, 0, 0)
            /\ UNCHANGED << sessionVars, cb_pc, cb_io, cb_len >>
       ELSE /\ cb_pc' = "metered"
            /\ cb_io' = k
            /\ cb_len' = n
            /\ last' = Callback(200, 1, 0)
            /\ UNCHANGED sessionVars
    /\ UNCHANGED << paramVars, eq_frequencies, audio_inputs, catalog >>

\* audio.py:202-216: gain, equalizer, clip, write.  outcome: "ok", "eq_error"
\* (np.fft.rfft/irfft raises inside _apply_eq, which returns its input) or
\* "error" (an exception reaches the handler of _process_audio).
ProcessAudioWrite(outcome) ==
    /\ cb_pc = "metered"
    /\ cb_pc' = "idle"
    /\ cb_io' = 0
    /\ cb_len' = 0
    /\ IF outcome = "error"
       THEN /\ Install(Collect(on_callback_error(Self), 0))
            /\ last' = Callback(219, 1, 0)
       ELSE /\ Install(Collect(
                   [Self EXCEPT !.fft_freqs_cache =
                        apply_eq_cache(fft_freqs_cache, eq_gains,
                                       EqDataLen(cb_len, channels), sample_rate)], 0))
            /\ last' = Callback(216, 1, IF io_device_out # 0 THEN 1 ELSE 0)
    /\ UNCHANGED << paramVars, eq_frequencies, audio_inputs, catalog >>

\* -------------------------------------------------------------- parameters
\* audio.py:226 and 229, the quadratic branch, as gain * GainScale for
\* sensitivity = sens / 100: (gain_pct / 50)^2 * (0.3 + 0.7 * sensitivity)
gain_quadratic(gain_pct, sens) ==
    LET sensitivity_factor == 300 + 7 * sens
    IN  gain_pct * gain_pct * sensitivity_factor

\* the boost branch starting from unity gain instead of the sensitivity factor
gain_boost_from_unity(gain_pct, sens) ==
    LET sensitivity_factor == 300 + 7 * sens
        max_boost == 1000 + 30 * sens
    IN  2500 * 1000 + 50 * (gain_pct - 50) * (max_boost - sensitivity_factor)

\* audio.py:226 and 231-232, the boost branch:
\* sensitivity_factor + (gain_pct / 50 - 1) * (max_boost - sensitivity_factor)
gain_boost(gain_pct, sens) ==
    LET sensitivity_factor == 300 + 7 * sens
        max_boost == 1000 + 30 * sens
    IN  2500 * sensitivity_factor
          + 50 * (gain_pct - 50) * (max_boost - sensitivity_factor)

\* audio.py:221-232
set_gain(gain_pct, sens) ==
    IF gain_pct = 0 THEN 0
    ELSE IF gain_pct <= 50
         THEN gain_quadratic(gain_pct, sens)
         ELSE gain_boost(gain_pct, sens)

\* set_eq_gains without the length test
set_eq_gains_unchecked(old, gains) == gains

\* audio.py:237-239
set_eq_gains(old, gains) ==
    IF Len(gains) = Len(old) THEN gains ELSE old

\* percents and sensitivities the callers pass (ui.py:118, settings_dialog.py:129)
Percents == {0, 1, 25, 50, 51, 75, 100}
Sensitivities == {10, 50, 100}
\* gain sequences the callers pass: the right length and one band more or less
EqInputs ==
    { [i \in 1 .. n |-> v] : n \in {Len(EqFrequencies) - 1, Len(EqFrequencies),
                                   Len(EqFrequencies) + 1},
                             v \in {0, 6} }
      \cup { [i \in 1 .. Len(EqFrequencies) |-> IF i = 3 THEN -12 ELSE 0] }

SetGain(p) ==
    /\ gain' = set_gain(p, volume_sensitivity)
    /\ gain_percent' = p
    /\ UNCHANGED << sessionVars, cbVars, volume_sensitivity, eq_gains,
                    eq_frequencies, audio_inputs, last, catalog >>

\* audio.py:234-235
SetVolumeSensitivity(s) ==
    /\ volume_sensitivity' = s
    /\ UNCHANGED << sessionVars, cbVars, gain, gain_percent, eq_gains,
                    eq_frequencies, audio_inputs, last, catalog >>

SetEqGains(g) ==
    /\ eq_gains' = set_eq_gains(eq_gains, g)
    /\ UNCHANGED << sessionVars, cbVars, gain, gain_percent, volume_sensitivity,
                    eq_frequencies, audio_inputs, last, catalog >>

\* ---------------------------------------------------------- device catalog
\* Names are sequences of numbers: byte values for bytes, code points for str.
\* The bytes and characters names are made of: A, the bytes 0x81 0x98 0xA9 0xC3
\* 0xE0 (C3 A9 is the UTF-8 form of U+00E9), and for str also U+0430, which
\* Latin-1 cannot encode.
NameBytes == {65, 129, 152, 169, 195, 224}
NameChars == NameBytes \cup {1072}

\* what locale.getpreferredencoding(False) can return
PreferredEncodings == {"utf-8", "cp1251", "cp1252"}

Decoded(text) == [ok |-> TRUE, text |-> text]
\* UnicodeDecodeError
DecodeError == [ok |-> FALSE, text |-> << >>]

\* The code pages of the codecs, on NameBytes: the code point a byte stands
\* for, -1 where the code page leaves the byte undefined.
Cp1250 ==
    [b \in NameBytes |->
       CASE b < 128 -> b
         [] b = 169 -> 169
         [] b = 195 -> 258
         [] b = 224 -> 341
         [] b \in {129, 152} -> -1]

Cp1251 ==
    [b \in NameBytes |->
       CASE b < 128 -> b
         [] b = 129 -> 1027
         [] b = 169 -> 169
         [] b = 195 -> 1043
         [] b = 224 -> 1072
         [] b = 152 -> -1]

Cp1252 ==
    [b \in NameBytes |->
       CASE b < 128 -> b
         [] b = 152 -> 732
         [] b \in {169, 195, 224} -> b
         [] b = 129 -> -1]

Latin1 == [b \in NameBytes |-> b]

\* bytes.decode with a single-byte codec
DecodeTable(table, bytes) ==
    IF \E i \in 1 .. Len(bytes) : table[bytes[i]] = -1
    THEN DecodeError
    ELSE Decoded([i \in 1 .. Len(bytes) |-> table[bytes[i]]])

\* bytes.decode("utf-8"): one-, two- and three-byte forms (no byte of NameBytes
\* starts a four-byte form); a lone continuation byte, a truncated form, an
\* overlong form or a surrogate is an error
RECURSIVE Utf8(_)
Utf8(bytes) ==
    IF bytes = << >> THEN Decoded(<< >>) ELSE
    LET b1 == bytes[1]
        width == CASE b1 < 128 -> 1
                   [] b1 \in 128 .. 193 -> 0
                   [] b1 \in 194 .. 223 -> 2
                   [] b1 \in 224 .. 239 -> 3
        Cont(i) == i <= Len(bytes) /\ bytes[i] \in 128 .. 191
        valid == CASE width = 0 -> FALSE
                   [] width = 1 -> TRUE
                   [] width = 2 -> Cont(2)
                   [] width = 3 -> /\ Cont(2) /\ Cont(3)
                                   /\ b1 = 224 => bytes[2] >= 160
                                   /\ b1 = 237 => bytes[2] <= 159
    IN  IF ~valid THEN DecodeError ELSE
        LET cp == CASE width = 1 -> b1
                    [] width = 2 -> (b1 - 192) * 64 + (bytes[2] - 128)
                    [] width = 3 -> (b1 - 224) * 4096 + (bytes[2] - 128) * 64
                                      + (bytes[3] - 128)
            rest == Utf8(SubSeq(bytes, width + 1, Len(bytes)))
        IN  IF rest.ok THEN Decoded(<< cp >> \o rest.text) ELSE DecodeError

\* raw_name.decode(enc), audio.py:18 and 28
decode(enc, bytes) ==
    CASE enc = "utf-8" -> Utf8(bytes)
      [] enc = "cp1250" -> DecodeTable(Cp1250, bytes)
      [] enc = "cp1251" -> DecodeTable(Cp1251, bytes)
      [] enc = "cp1252" -> DecodeTable(Cp1252, bytes)
      [] enc = "latin1" -> DecodeTable(Latin1, bytes)

\* audio.py:10-16, the encodings tried on bytes
BytesEncodings(pref) == << pref, "utf-8", "cp1250", "cp1251", "latin1" >>
\* audio.py:26, the encodings tried on the Latin-1 bytes of a str
TextEncodings == << "utf-8", "cp1250", "cp1251", "latin1" >>

\* the for loops of audio.py:10-21 and 26-31: the first decoding that raises no
\* UnicodeDecodeError, otherwise what follows the loop
RECURSIVE FirstDecoding(_, _, _)
FirstDecoding(encs, bytes, otherwise) ==
    IF encs = << >> THEN otherwise
    ELSE LET r == decode(Head(encs), bytes)
         IN  IF r.ok THEN r.text ELSE FirstDecoding(Tail(encs), bytes, otherwise)

\* raw_name.encode("latin1") raises UnicodeEncodeError
Latin1EncodeError(text) == \E i \in 1 .. Len(text) : text[i] > 255

\* audio.py:8-31; raw is [kind |-> "bytes" or "str", data |-> the name]
normalize_device_name(raw, pref) ==
    IF raw.kind = "bytes"
    THEN FirstDecoding(BytesEncodings(pref), raw.data,
                       DecodeTable(Latin1, raw.data).text)
    ELSE IF Latin1EncodeError(raw.data) THEN raw.data
    ELSE FirstDecoding(TextEncodings, raw.data, raw.data)

\* the names callers pass
NamesOver(chars) == UNION { [1 .. n -> chars] : n \in 0 .. MaxNameLen }
RawNames ==
    { [kind |-> "bytes", data |-> d] : d \in NamesOver(NameBytes) }
      \cup { [kind |-> "str", data |-> d] : d \in NamesOver(NameChars) }

\* QAudioDevice.description(): a str
Description(dev) ==
    [kind |-> "str",
     data |-> CASE dev = "mic" -> << 65 >>
                [] dev = "line" -> << 195, 169 >>
                [] dev = "usb" -> << 1072 >>
                [] dev = "spk" -> << 224 >>
                [] dev = "hp" -> << 65, 152 >>]

\* audio.py:57-65 and 68-76.  fail_at = -1: no exception; fail_at = k: an
\* exception is raised with k devices appended (k = 0: by audioInputs() /
\* audioOutputs() or at the first device; k > 0: by description() or the
\* normalization at device k); the handler prints and the list is returned.
get_devices(audio_devices, pref, fail_at) ==
    LET n == IF fail_at = -1 THEN Len(audio_devices) ELSE fail_at
    IN  [devices |-> [i \in 1 .. n |->
                        << i - 1, normalize_device_name(Description(audio_devices[i]), pref) >>],
         error |-> fail_at # -1]

NormalizeDeviceName(raw, pref) ==
    /\ catalog' = [op |-> "_normalize_device_name", pref |-> pref, raw |-> raw,
                   name |-> normalize_device_name(raw, pref),
                   devices |-> << >>, error |-> FALSE]
    /\ UNCHANGED << managerVars, audio_inputs >>

GetInputDevices(pref, fail_at) ==
    /\ fail_at < Len(audio_inputs)
    /\ \E r \in {get_devices(audio_inputs, pref, fail_at)} :
           catalog' = [op |-> "get_input_devices", pref |-> pref,
                       raw |-> [kind |-> "str", data |-> << >>], name |-> << >>,
                       devices |-> r.devices, error |-> r.error]
    /\ UNCHANGED << managerVars, audio_inputs >>

GetOutputDevices(pref, fail_at) ==
    /\ fail_at < Len(AudioOutputs)
    /\ \E r \in {get_devices(AudioOutputs, pref, fail_at)} :
           catalog' = [op |-> "get_output_devices", pref |-> pref,
                       raw |-> [kind |-> "str", data |-> << >>], name |-> << >>,
                       devices |-> r.devices, error |-> r.error]
    /\ UNCHANGED << managerVars, audio_inputs >>

\* ------------------------------------------------------------- environment
\* the input device fails or is unplugged while the stream runs: the source
\* goes to StoppedState by itself
SourceStopped(k) ==
    /\ sources[k].used /\ sources[k].cb
    /\ sources[k].state # StoppedState
    /\ Install(Collect([Self EXCEPT !.sources[k].state = StoppedState], cb_io))
    /\ UNCHANGED << paramVars, cbVars, eq_frequencies, audio_inputs, last, catalog >>

\* gain sequences passed while a stream is being driven
EqInputsStream ==
    { [i \in 1 .. Len(EqFrequencies) |-> 0], [i \in 1 .. Len(EqFrequencies) |-> 6],
      [i \in 1 .. Len(EqFrequencies) - 1 |-> 6],
      [i \in 1 .. Len(EqFrequencies) + 1 |-> 6] }

\* The stream: lifecycle, callback, equalizer gains, environment.
Next ==
    \/ \E d \in DeviceIds, o \in OutputIds, f \in FailPoints : StartStream(d, o, f)
    \/ StopStream
    \/ \E k \in Slots, n \in BufLens, err \in BOOLEAN : ProcessAudioRead(k, n, err)
    \/ \E outcome \in {"ok", "eq_error", "error"} : ProcessAudioWrite(outcome)
    \/ \E g \in EqInputsStream : SetEqGains(g)
    \/ \E k \in Slots : SourceStopped(k)

Spec == Init /\ [][Next]_vars

\* The parameter setters.  set_gain and set_volume_sensitivity read and write
\* only _gain and _volume_sensitivity, which no stream operation writes, so they
\* are explored on their own, with more inputs.
NextParams ==
    \/ \E p \in Percents : SetGain(p)
    \/ \E s \in Sensitivities : SetVolumeSensitivity(s)
    \/ \E g \in EqInputs : SetEqGains(g)

SpecParams == Init /\ [][NextParams]_vars

\* The device catalog.  It reads the enumeration of the platform and no field
\* of the AudioManager, so it is explored on its own.
NextCatalog ==
    \/ \E raw \in RawNames, pref \in PreferredEncodings : NormalizeDeviceName(raw, pref)
    \/ \E pref \in PreferredEncodings, fail_at \in -1 .. Len(AudioInputs) - 1 :
          GetInputDevices(pref, fail_at)
    \/ \E pref \in PreferredEncodings, fail_at \in -1 .. Len(AudioOutputs) - 1 :
          GetOutputDevices(pref, fail_at)

SpecCatalog == Init /\ [][NextCatalog]_vars

\* ------------------------------------------------------------------ claims
\* the three handles of a session
SessionOpen == audio_source # 0 /\ audio_sink # 0 /\ io_device_out # 0
SessionClosed == audio_source = 0 /\ audio_sink = 0 /\ io_device_out = 0

\* connections that hold their device: objects not in StoppedState
OpenSources == { k \in Slots : sources[k].used /\ sources[k].state # StoppedState }
OpenSinks == { k \in Slots : sinks[k].used /\ sinks[k].state # StoppedState }

InRange(device_id) == device_id >= 0 /\ device_id < Len(audio_inputs)

\* what a start_stream call made in the current state returns and leaves behind
StartResult(d, o, f) == start_stream(Self, audio_inputs, d, o, f)

\* C1: after start_stream returns, the input connection, the output connection
\* and the write handle are all present or all absent, and when it returns
\* False no connection it opened is left open.
C1_NeverHalfOpen ==
    [][ \A d \in DeviceIds, o \in OutputIds, f \in FailPoints :
          StartStream(d, o, f) =>
            /\ SessionOpen' \/ SessionClosed'
            /\ last'.ret = "False" =>
                 /\ OpenSources' \subseteq OpenSources
                 /\ OpenSinks' \subseteq OpenSinks ]_vars

\* C2: with a session open on a source that is not in StoppedState,
\* start_stream for the same input and output device returns True and changes
\* nothing: no stop, no new connection, same format, rate, channels and cache.
C2_SameStreamNoOp ==
    \A d \in DeviceIds, o \in OutputIds, f \in FailPoints \ {"enumerate"} :
        ( /\ InRange(d)
          /\ SessionOpen
          /\ sources[audio_source].state # StoppedState
          /\ input_device = audio_inputs[d + 1]
          /\ output_device = ResolveOutput(o) )
        => LET r == StartResult(d, o, f)
           IN  /\ r.ret = "True"
               /\ Collect(r.self, cb_io) = Self

\* a repeated start_stream has returned at the guard (line 99) on a running session
C2_Witness ==
    /\ last.op = "start_stream" /\ last.line = 99
    /\ SessionOpen
    /\ sources[audio_source].state # StoppedState

C4_StopWaitsForCallback ==
    [][ (last'.op = "stop_stream" /\ cb_pc # "idle" /\ StopStream) =>
          /\ audio_source' = audio_source
          /\ audio_sink' = audio_sink
          /\ io_device_out' = io_device_out ]_vars

\* C5: start_stream returns False when the device id is out of range or a device
\* fails to open, and returns True only with both connections opened and the
\* callback registered.
C5_StartResult ==
    [][ \A d \in DeviceIds, o \in OutputIds, f \in FailPoints :
          StartStream(d, o, f) =>
            /\ ~InRange(d) => last'.ret = "False"
            /\ ( /\ f \in {"sink_open", "source_start"}
                 /\ InRange(d)
                 /\ ~SameStreamRunning(Self, audio_inputs[d + 1], ResolveOutput(o)) )
               => last'.ret = "False"
            /\ last'.ret = "True" =>
                 /\ SessionOpen'
                 /\ sources'[audio_source'].cb ]_vars

CallbackError ==
    \/ \E k \in Slots, n \in BufLens : ProcessAudioRead(k, n, TRUE)
    \/ ProcessAudioWrite("error")

\* C7: an exception in the callback ends in its handler (line 219); the session
\* keeps its connections and its write handle, and the callback can run again.
C7_CallbackErrorCaught ==
    [][ (last'.op = "_process_audio" /\ last'.line = 219 /\ CallbackError) =>
          /\ audio_source' = audio_source
          /\ audio_sink' = audio_sink
          /\ io_device_out' = io_device_out
          /\ audio_source # 0 => sources'[audio_source] = sources[audio_source]
          /\ audio_sink # 0 => sinks'[audio_sink] = sinks[audio_sink]
          /\ cb_pc' = "idle" ]_vars

\* the handler has run and the session is still open on a running source
C7_Witness ==
    /\ last.op = "_process_audio" /\ last.line = 219
    /\ SessionOpen
    /\ sources[audio_source].state = ActiveState
    /\ sources[audio_source].cb
    /\ cb_pc = "idle"

\* C8: once set_gain has been called, the multiplier is the curve at the percent
\* and the sensitivity set last.
C8_GainFollowsInputs ==
    gain_percent # -1 => gain = set_gain(gain_percent, volume_sensitivity)

\* C9: from every reachable state, start_stream with an in-range id and devices
\* that open returns True and leaves the session open with the callback
\* registered.
C9_StartRecovers ==
    [][ \A d \in DeviceIds, o \in OutputIds :
          (StartStream(d, o, "none") /\ InRange(d)) =>
            /\ last'.ret = "True"
            /\ SessionOpen'
            /\ sources'[audio_source'].cb ]_vars

\* C10: set_eq_gains with a sequence of another length than the band table
\* changes nothing, with one of that length it replaces the gains by the
\* sequence; no step changes the band table.
C10_EqGainsLength ==
    [][ /\ \A g \in EqInputsStream :
             (last' = last /\ SetEqGains(g)) =>
               eq_gains' = IF Len(g) = Len(EqFrequencies) THEN g ELSE eq_gains
        /\ eq_frequencies' = eq_frequencies
        /\ eq_frequencies = EqFrequencies ]_vars

\* the gains have been replaced by a sequence of the right length
C10_Witness ==
    /\ eq_gains = [i \in 1 .. Len(EqFrequencies) |-> 6]
    /\ eq_frequencies = EqFrequencies

\* C12: while a session stays open (same input and output connection before and
\* after a step) the sample rate, the channel count, the stored format and the
\* format the two connections were opened with do not change, and in an open
\* session the connections carry the stored format at the stored sample rate.
C12_FormatImmutable ==
    [][ /\ ( /\ SessionOpen /\ SessionOpen'
             /\ audio_source' = audio_source
             /\ audio_sink' = audio_sink )
           => /\ sample_rate' = sample_rate
              /\ channels' = channels
              /\ format' = format
              /\ sources'[audio_source].fmt = sources[audio_source].fmt
              /\ sinks'[audio_sink].fmt = sinks[audio_sink].fmt
        /\ SessionOpen
           => /\ sources[audio_source].fmt = format
              /\ sinks[audio_sink].fmt = format
              /\ format.rate = sample_rate ]_vars

\* a start_stream has returned at the guard on a session whose format was
\* negotiated down to the preferred format of the device
C12_Witness ==
    /\ last.op = "start_stream" /\ last.ret = "True" /\ last.line = 99
    /\ SessionOpen
    /\ format = [rate |-> 48000, ch |-> 6]
    /\ sources[audio_source].fmt = format

\* C13: every entry of the frequency-bin cache was computed with the current
\* sample rate.
C13_CacheMatchesRate ==
    \A k \in CacheKeys : fft_freqs_cache[k] \in {0, sample_rate}

\* the cache holds bins for the rate a negotiation has changed to
C13_Witness ==
    /\ sample_rate = 48000
    /\ \E k \in CacheKeys : fft_freqs_cache[k] = 48000

\* C16: in an open session the channel count of the format the two connections
\* were opened with is the channel count the callback de-interleaves with, and
\* it is 1 or 2.
C16_ChannelsClamped ==
    SessionOpen =>
        /\ sources[audio_source].fmt.ch = channels
        /\ sinks[audio_sink].fmt.ch = channels
        /\ channels \in {1, 2}

\* C18: start_stream with an id outside the enumeration returns False and
\* leaves the connections, the handles, the devices, the format, the rate, the
\* channel count and the cache as they were.
C18_OutOfRangeUntouched ==
    \A d \in DeviceIds, o \in OutputIds, f \in FailPoints :
        ~InRange(d) =>
            LET r == StartResult(d, o, f)
            IN  /\ r.ret = "False"
                /\ Collect(r.self, cb_io) = Self

\* an out-of-range start_stream has returned at line 82 with the session still
\* open and running, its cache filled
C18_Witness ==
    /\ last.op = "start_stream" /\ last.ret = "False" /\ last.line = 82
    /\ SessionOpen
    /\ is_active(Self)
    /\ \E k \in CacheKeys : fft_freqs_cache[k] # 0

\* the percents of the volume slider and the sensitivities 0.00 .. 1.00 in
\* hundredths
CurvePercents == 0 .. 100
CurveSensitivities == 0 .. 100

\* 0.3 + 0.7 * sensitivity, scaled as the gain is
ReferenceGain(sens) == (GainScale \div 1000) * (300 + 7 * sens)

\* C14: for every sensitivity the curve of set_gain is 0 at percent 0, does not
\* decrease from one percent to the next over 1..100, and at percent 50 the
\* quadratic branch and the boost branch both give 0.3 + 0.7 * sensitivity;
\* the stored multiplier is always a point of that curve at the last percent.
C14_GainCurve ==
    /\ \A s \in CurveSensitivities :
          /\ set_gain(0, s) = 0
          /\ \A p \in CurvePercents \ {0, 100} : set_gain(p, s) <= set_gain(p + 1, s)
          /\ gain_quadratic(50, s) = ReferenceGain(s)
          /\ gain_boost(50, s) = ReferenceGain(s)
          /\ set_gain(50, s) = ReferenceGain(s)
    /\ gain_percent # -1 =>
          \E s \in Sensitivities \cup {50} : gain = set_gain(gain_percent, s)

\* set_gain has been called at the reference point, and then past it, with the
\* sensitivity at its maximum
C14_Witness ==
    /\ volume_sensitivity = 100
    /\ \/ gain_percent = 50 /\ gain = ReferenceGain(100)
       \/ gain_percent = 51 /\ gain > ReferenceGain(100)

C11_EnumerationFailSoft ==
    catalog.op \in {"get_input_devices", "get_output_devices"} =>
        LET snapshot == IF catalog.op = "get_input_devices"
                        THEN audio_inputs ELSE AudioOutputs
        IN  IF catalog.error
            THEN catalog.devices = << >>
            ELSE /\ Len(catalog.devices) = Len(snapshot)
                 /\ \A i \in 1 .. Len(snapshot) : catalog.devices[i][1] = i - 1

\* C15: the name returned is the first decoding that succeeds in the order
\* preferred encoding, UTF-8, cp1250, cp1251, Latin-1, of the bytes given or of
\* the Latin-1 bytes of the text given; text that Latin-1 cannot encode is
\* returned as it is.
C15_FirstDecodingWins ==
    catalog.op = "_normalize_device_name" =>
        IF catalog.raw.kind = "str" /\ Latin1EncodeError(catalog.raw.data)
        THEN catalog.name = catalog.raw.data
        ELSE LET chain == << catalog.pref, "utf-8", "cp1250", "cp1251", "latin1" >>
             IN  \E i \in 1 .. Len(chain) :
                    /\ decode(chain[i], catalog.raw.data).ok
                    /\ catalog.name = decode(chain[i], catalog.raw.data).text
                    /\ \A j \in 1 .. i - 1 : ~decode(chain[j], catalog.raw.data).ok

====
